---- MODULE Spec2Model ----
(***************************************************************************)
(* Model of nmt/utils/iterator_utils.py: the tf.data input pipelines built *)
(* by get_iterator (training) and get_infer_iterator (inference).          *)
(*                                                                         *)
(* A string is a sequence of one-character strings, so that the two        *)
(* tf.string_split stages can be computed rather than assumed.  A grid is  *)
(* a sequence of rows (timesteps), a row a sequence of fields.             *)
(*                                                                         *)
(* The shuffle draws any element of its buffer (the seed is not modelled,  *)
(* so reshuffle_each_iteration makes no difference); map with              *)
(* num_parallel_calls and prefetch keep the order of their input and are   *)
(* not steps of their own.  Word mode only (use_char_encode = False).  An  *)
(* op that raises ends the epoch: get_next propagates the error, and the   *)
(* iterator is used again only after its initializer has run.              *)
(***************************************************************************)
EXTENDS Integers, Sequences, FiniteSets, TLC

(***************************************************************************)
(* Bounds of the model.                                                    *)
(***************************************************************************)
MaxPairs == 5
MaxBatchSize == 2
MaxBuckets == 2
MaxShards == 2
MaxSkip == 1

(***************************************************************************)
(* Small helpers.                                                          *)
(***************************************************************************)
Min(a, b) == IF a <= b THEN a ELSE b

Max(a, b) == IF a >= b THEN a ELSE b

Range(s) == {s[i] : i \in 1..Len(s)}

MaxOf(S) == IF S = {} THEN 0 ELSE CHOOSE m \in S : \A x \in S : x <= m

MinOf(S) == CHOOSE m \in S : \A x \in S : m <= x

\* None of Python: an absent optional argument.
None == -1

\* Python truthiness of an optional int argument (`if src_max_len:`).
Truthy(v) == v # None /\ v # 0

(***************************************************************************)
(* Tokenizer: tf.string_split.                                             *)
(***************************************************************************)
WHITESPACE == {" "}

INPUT_DELIM == "|"

\* tf.string_split(source, delimiter, skip_empty=True): the maximal runs of
\* characters that are not delimiters; empty pieces are skipped.
RECURSIVE SplitFrom(_, _, _, _, _)
SplitFrom(s, D, i, cur, acc) ==
  IF i > Len(s)
  THEN (IF cur = <<>> THEN acc ELSE Append(acc, cur))
  ELSE IF s[i] \in D
       THEN SplitFrom(s, D, i + 1, <<>>,
                      IF cur = <<>> THEN acc ELSE Append(acc, cur))
       ELSE SplitFrom(s, D, i + 1, Append(cur, s[i]), acc)

string_split(s, D) == SplitFrom(s, D, 1, <<>>, <<>>)

\* tf.string_split([src]).values: the whitespace-separated tokens of a line.
Tokens(line) == string_split(line, WHITESPACE)

\* tf.string_split(tokens, delimiter=INPUT_DELIM): one ragged row of
\* sub-fields per token (a sparse tensor: row i holds the pieces of token i).
SubFields(tokens) ==
  [i \in 1..Len(tokens) |-> string_split(tokens[i], {INPUT_DELIM})]

\* dense_shape[1] of the sparse tensor: the longest row (0 without rows).
DenseWidth(rows) == MaxOf({Len(rows[i]) : i \in 1..Len(rows)})

\* Variant: default_value is the end-of-sentence word.
sparse_to_dense_eos(rows) ==
  [i \in 1..Len(rows) |->
     [j \in 1..DenseWidth(rows) |->
        IF j <= Len(rows[i]) THEN rows[i][j] ELSE <<"<", "/", "s", ">">>]]

\* tf.sparse_to_dense(..., default_value=''): every row is filled up to the
\* dense width with the empty string.
sparse_to_dense(rows) ==
  [i \in 1..Len(rows) |->
     [j \in 1..DenseWidth(rows) |->
        IF j <= Len(rows[i]) THEN rows[i][j] ELSE <<>>]]

\* The three map stages from a raw line to a dense grid of strings.
Tokenize(line) == sparse_to_dense(SubFields(Tokens(line)))

(***************************************************************************)
(* Vocabulary tables (arguments of the two functions).  A table is the     *)
(* list of its words; a word's id is its index, counted from 0; a word     *)
(* that is not in the table gets the table's default id.                   *)
(***************************************************************************)
UNK_ID == 0

sos == <<"<", "s", ">">>

eos == <<"<", "/", "s", ">">>

unk == <<"<", "u", "n", "k", ">">>

src_vocab_tables ==
  << <<unk, sos, eos, <<"a">>, <<"b">> >>,
     <<unk, <<"x">>, sos, eos, <<"y">> >> >>

tgt_vocab_tables ==
  << <<unk, sos, eos, <<"p">>, <<"q">> >>,
     <<unk, <<"u">>, <<"v">>, eos, sos>> >>

\* vocab_table.lookup(word)
VocabLookup(table, word) ==
  IF \E k \in 1..Len(table) : table[k] = word
  THEN (CHOOSE k \in 1..Len(table) :
          table[k] = word /\ \A m \in 1..(k - 1) : table[m] # word) - 1
  ELSE UNK_ID

\* tf.shape(grid)[1].  A grid without rows comes from a line without tokens,
\* whose sparse tensor has dense_shape [0, 0].
GridWidth(grid) == IF Len(grid) = 0 THEN 0 ELSE Len(grid[1])

\* input[:, i] is a strided slice: it raises InvalidArgumentError when the
\* dense grid has fewer columns than there are tables.
LookupFails(vocab_tables, input) == GridWidth(input) < Len(vocab_tables)

\* lookup_sep_vocabs: column i is looked up in table i and the columns are
\* concatenated again; columns beyond the tables are dropped.
lookup_sep_vocabs(vocab_tables, input) ==
  [t \in 1..Len(input) |->
     [i \in 1..Len(vocab_tables) |-> VocabLookup(vocab_tables[i], input[t][i])]]

\* Padding ids: table 0 only.
src_eos_id == VocabLookup(src_vocab_tables[1], eos)

tgt_sos_id == VocabLookup(tgt_vocab_tables[1], sos)

tgt_eos_id == VocabLookup(tgt_vocab_tables[1], eos)

\* Framing ids: one per target table.
tgt_sos_ids ==
  [i \in 1..Len(tgt_vocab_tables) |-> VocabLookup(tgt_vocab_tables[i], sos)]

tgt_eos_ids ==
  [i \in 1..Len(tgt_vocab_tables) |-> VocabLookup(tgt_vocab_tables[i], eos)]

(***************************************************************************)
(* Filter, truncate, frame, lengths: the per-record stages of              *)
(* get_iterator.                                                           *)
(***************************************************************************)
\* grid[:n]
Take(grid, n) == SubSeq(grid, 1, Min(n, Len(grid)))

\* Variant: only the target length is tested.
KeepPairTgtOnly(src, tgt) == Len(tgt) > 0

\* Filter zero length input sequences.
KeepPair(src, tgt) == Len(src) > 0 /\ Len(tgt) > 0

TruncateSrc(src, src_max_len) ==
  IF Truthy(src_max_len) THEN Take(src, src_max_len) ELSE src

TruncateTgt(tgt, tgt_max_len) ==
  IF Truthy(tgt_max_len) THEN Take(tgt, tgt_max_len) ELSE tgt

\* tf.concat((tf.expand_dims(tgt_sos_ids, 0), tgt), 0)
TgtInput(tgt) == <<tgt_sos_ids>> \o tgt

\* Variant: the start-of-sequence ids are appended instead.
TgtOutputSos(tgt) == tgt \o <<tgt_sos_ids>>

\* tf.concat((tgt, tf.expand_dims(tgt_eos_ids, 0)), 0)
TgtOutput(tgt) == tgt \o <<tgt_eos_ids>>

\* The record a (source line, target line) pair becomes, from the first
\* string_split to the sequence lengths (use_char_encode = False).  `pos` is
\* the pair's position in the zipped input and `tgt` the encoded target
\* before framing; both are kept for the properties only.
TrainRecord(pos, pair, src_max_len, tgt_max_len) ==
  LET src == lookup_sep_vocabs(src_vocab_tables,
               TruncateSrc(Tokenize(pair[1]), src_max_len))
      tgt == lookup_sep_vocabs(tgt_vocab_tables,
               TruncateTgt(Tokenize(pair[2]), tgt_max_len))
  IN [pos |-> pos,
      src |-> src,
      tgt |-> tgt,
      tgt_in |-> TgtInput(tgt),
      tgt_out |-> TgtOutput(tgt),
      src_len |-> Len(src),
      tgt_len |-> Len(TgtInput(tgt))]

\* Whether one of the two lookups of the pair raises.
TrainLookupFails(pair, src_max_len, tgt_max_len) ==
  \/ LookupFails(src_vocab_tables, TruncateSrc(Tokenize(pair[1]), src_max_len))
  \/ LookupFails(tgt_vocab_tables, TruncateTgt(Tokenize(pair[2]), tgt_max_len))

\* The record of get_infer_iterator: no filter, no target.
InferRecord(pos, line, src_max_len) ==
  LET src == lookup_sep_vocabs(src_vocab_tables,
               TruncateSrc(Tokenize(line), src_max_len))
  IN [pos |-> pos, src |-> src, src_len |-> Len(src)]

InferLookupFails(line, src_max_len) ==
  LookupFails(src_vocab_tables, TruncateSrc(Tokenize(line), src_max_len))

(***************************************************************************)
(* padded_batch.                                                           *)
(***************************************************************************)
\* Variant: the padding rows hold 0 instead of the padding id.
PadGridZero(grid, n, width, pad_id) ==
  [t \in 1..n |-> IF t <= Len(grid) THEN grid[t] ELSE [i \in 1..width |-> 0]]

\* A grid padded to n rows with rows that hold pad_id in each of its columns.
PadGrid(grid, n, width, pad_id) ==
  [t \in 1..n |-> IF t <= Len(grid) THEN grid[t] ELSE [i \in 1..width |-> pad_id]]

MaxLen(grids) == MaxOf({Len(grids[k]) : k \in 1..Len(grids)})

PadAll(grids, width, pad_id) ==
  [k \in 1..Len(grids) |-> PadGrid(grids[k], MaxLen(grids), width, pad_id)]

NUM_INPUTS_PER_TIMESTEP == Len(src_vocab_tables)

NUM_OUTPUTS_PER_TIMESTEP == Len(tgt_vocab_tables)

\* batching_func of get_iterator on the records of one batch.  `key` and
\* `members` (the records before padding) are kept for the properties only.
batching_func(key, recs) ==
  [key |-> key,
   members |-> recs,
   source |-> PadAll([k \in 1..Len(recs) |-> recs[k].src],
                     NUM_INPUTS_PER_TIMESTEP, src_eos_id),
   target_input |-> PadAll([k \in 1..Len(recs) |-> recs[k].tgt_in],
                           NUM_OUTPUTS_PER_TIMESTEP, tgt_eos_id),
   target_output |-> PadAll([k \in 1..Len(recs) |-> recs[k].tgt_out],
                            NUM_OUTPUTS_PER_TIMESTEP, tgt_eos_id),
   source_sequence_length |-> [k \in 1..Len(recs) |-> recs[k].src_len],
   target_sequence_length |-> [k \in 1..Len(recs) |-> recs[k].tgt_len]]

\* batching_func of get_infer_iterator.
infer_batching_func(recs) ==
  [key |-> None,
   members |-> recs,
   source |-> PadAll([k \in 1..Len(recs) |-> recs[k].src],
                     NUM_INPUTS_PER_TIMESTEP, src_eos_id),
   source_sequence_length |-> [k \in 1..Len(recs) |-> recs[k].src_len]]

(***************************************************************************)
(* Bucketing.                                                              *)
(***************************************************************************)
DEFAULT_BUCKET_WIDTH == 10

bucket_width(src_max_len, num_buckets) ==
  IF Truthy(src_max_len)
  THEN (src_max_len + num_buckets - 1) \div num_buckets
  ELSE DEFAULT_BUCKET_WIDTH

\* Variant: the bucket is chosen by the source length alone.
key_func_src_only(src_len, tgt_len, src_max_len, num_buckets) ==
  Min(num_buckets, src_len \div bucket_width(src_max_len, num_buckets))

key_func(src_len, tgt_len, src_max_len, num_buckets) ==
  LET w == bucket_width(src_max_len, num_buckets)
      bucket_id == Max(src_len \div w, tgt_len \div w)
  IN Min(num_buckets, bucket_id)

(***************************************************************************)
(* Shard and skip.  Positions count from 0.                                *)
(***************************************************************************)
\* The positions below n that belong to the shard, in order.
RECURSIVE SelectPos(_, _, _)
SelectPos(n, num_shards, shard_index) ==
  IF n = 0 THEN <<>>
  ELSE LET rest == SelectPos(n - 1, num_shards, shard_index)
       IN IF (n - 1) % num_shards = shard_index
          THEN Append(rest, n - 1) ELSE rest

\* Variant: positions counted from 1.
ShardFromOne(n, num_shards, shard_index) ==
  SelectPos(n, num_shards, (shard_index + num_shards - 1) % num_shards)

\* Dataset.shard(num_shards, shard_index) of a dataset of n elements.
Shard(n, num_shards, shard_index) == SelectPos(n, num_shards, shard_index)

\* s without its first n elements.
Drop(s, n) == SubSeq(s, Min(n, Len(s)) + 1, Len(s))

\* Dataset.skip(count), count >= 0.
Skip(s, count) == Drop(s, count)

\* Variant: the skip is applied to the zipped input, before the shard.
SkipThenShard(n, num_shards, shard_index, skip_count) ==
  IF skip_count # None
  THEN LET k == Min(skip_count, n)
           s == Shard(n - k, num_shards, shard_index)
       IN [i \in 1..Len(s) |-> s[i] + k]
  ELSE Shard(n, num_shards, shard_index)

\* src_tgt_dataset.shard(num_shards, shard_index), then .skip(skip_count)
\* when a skip count is given: the stream that reaches the shuffle.
ShardThenSkip(n, num_shards, shard_index, skip_count) ==
  IF skip_count # None
  THEN Skip(Shard(n, num_shards, shard_index), skip_count)
  ELSE Shard(n, num_shards, shard_index)

\* if not output_buffer_size: output_buffer_size = batch_size * 1000
OutputBufferSize(output_buffer_size, batch_size) ==
  IF Truthy(output_buffer_size) THEN output_buffer_size ELSE batch_size * 1000

(***************************************************************************)
(* Inputs: the lines of the two datasets and the arguments.                *)
(***************************************************************************)
Sp == <<" ">>

ax == <<"a", "|", "x">>

ay == <<"a", "|", "y">>

by == <<"b", "|", "y">>

pu == <<"p", "|", "u">>

qv == <<"q", "|", "v">>

\* (source line, target line) pairs.  Pair 2 has a source token without its
\* second sub-field and a long target; pair 3 has an empty source line;
\* pair 4 has six source tokens and a target token without its second
\* sub-field; in pair 5 no
\* source token has a second sub-field; the target line of pair 6 is blank.
SamplePairs ==
  << <<ax, pu>>,
     << <<"b">> \o Sp \o ay,
        qv \o Sp \o pu \o Sp \o qv \o Sp \o pu \o Sp \o qv \o Sp \o pu
           \o Sp \o qv \o Sp \o pu \o Sp \o qv >>,
     << <<>>, pu >>,
     << ax \o Sp \o by \o Sp \o ax \o Sp \o by \o Sp \o ax \o Sp \o by,
        qv \o Sp \o <<"p">> >>,
     << <<"a">> \o Sp \o <<"b">>, qv >>,
     << by, Sp >>,
     << ay \o Sp \o ax, pu \o Sp \o pu >> >>

Corpora == {Take(SamplePairs, n) : n \in 1..Min(MaxPairs, Len(SamplePairs))}

SrcMaxLens == {None, 5}

TgtMaxLens == {None, 2}

OutputBufferSizes == {None, 2}

TrainConfigs ==
  {[mode |-> "train", batch_size |-> bs, num_buckets |-> nb,
    src_max_len |-> sm, tgt_max_len |-> tm, output_buffer_size |-> ob,
    skip_count |-> sk, num_shards |-> ns, shard_index |-> si] :
     bs \in 1..MaxBatchSize, nb \in 1..MaxBuckets, sm \in SrcMaxLens,
     tm \in TgtMaxLens, ob \in OutputBufferSizes,
     sk \in {None} \cup 0..MaxSkip, ns \in 1..MaxShards, si \in 0..(MaxShards - 1)}

\* get_infer_iterator takes the source dataset, batch_size and src_max_len.
InferConfigs ==
  {[mode |-> "infer", batch_size |-> bs, num_buckets |-> 1,
    src_max_len |-> sm, tgt_max_len |-> None, output_buffer_size |-> None,
    skip_count |-> None, num_shards |-> 1, shard_index |-> 0] :
     bs \in 1..MaxBatchSize, sm \in SrcMaxLens}

Configs == {c \in TrainConfigs : c.shard_index < c.num_shards} \cup InferConfigs

(***************************************************************************)
(* State.                                                                  *)
(***************************************************************************)
VARIABLES
  cfg,        \* the arguments of get_iterator / get_infer_iterator
  corpus,     \* the zipped (source line, target line) dataset
  status,     \* created, running, end (OutOfRange) or failed (an op raised)
  reinit,     \* the initializer has run more than once
  skipped,    \* positions discarded by skip, in order
  upstream,   \* positions not yet read by the shuffle, in order
  buffer,     \* positions in the shuffle buffer
  filtered,   \* positions dropped by the zero-length filter
  arrived,    \* positions that reached the batcher, in arrival order
  windows,    \* group_by_window / padded_batch: key -> records collected
  emitted,    \* batches produced since the initializer ran
  failed,     \* the position whose lookup raised, or None
  shards      \* SpecShards only: shard_index -> the shard built for it

vars == <<cfg, corpus, status, reinit, skipped, upstream, buffer, filtered,
          arrived, windows, emitted, failed, shards>>

NoWindows == [k \in {} |-> <<>>]

Init ==
  /\ cfg \in Configs
  /\ corpus \in Corpora
  /\ status = "created"
  /\ reinit = FALSE
  /\ skipped = <<>>
  /\ upstream = <<>>
  /\ buffer = {}
  /\ filtered = {}
  /\ arrived = <<>>
  /\ windows = NoWindows
  /\ emitted = <<>>
  /\ failed = None
  /\ shards = <<>>

(***************************************************************************)
(* batched_iter.initializer: every stage's iterator is created anew.       *)
(***************************************************************************)
Initialize ==
  /\ reinit' = (status # "created")
  /\ status' = "running"
  /\ IF cfg.mode = "train"
     THEN LET local == Shard(Len(corpus), cfg.num_shards, cfg.shard_index)
              rest == ShardThenSkip(Len(corpus), cfg.num_shards,
                                    cfg.shard_index, cfg.skip_count)
          IN /\ upstream' = rest
             /\ skipped' = SubSeq(local, 1, Len(local) - Len(rest))
     ELSE /\ upstream' = [i \in 1..Len(corpus) |-> i - 1]
          /\ skipped' = <<>>
  /\ buffer' = {}
  /\ filtered' = {}
  /\ arrived' = <<>>
  /\ windows' = NoWindows
  /\ emitted' = <<>>
  /\ failed' = None
  /\ UNCHANGED <<cfg, corpus, shards>>

(***************************************************************************)
(* The batchers.                                                           *)
(***************************************************************************)
\* The window of `key` with rec appended.
Collected(w, key, rec) ==
  IF key \in DOMAIN w THEN Append(w[key], rec) ELSE <<rec>>

Without(w, key) == [k \in (DOMAIN w) \ {key} |-> w[k]]

With(w, key, recs) == [k \in (DOMAIN w) \cup {key} |-> IF k = key THEN recs ELSE w[k]]

\* Variant: the bucketing branch is taken for num_buckets = 1 too.
BatcherKeyAlways(rec) ==
  IF cfg.num_buckets >= 1
  THEN key_func(rec.src_len, rec.tgt_len, cfg.src_max_len, cfg.num_buckets)
  ELSE None

\* The key under which the batcher collects a training record:
\* key_func when num_buckets > 1, one batch under construction otherwise.
BatcherKey(rec) ==
  IF cfg.num_buckets > 1
  THEN key_func(rec.src_len, rec.tgt_len, cfg.src_max_len, cfg.num_buckets)
  ELSE None

\* A window (or the batch under construction) is reduced when it holds
\* window_size = batch_size records.
WindowFull(recs) == Len(recs) = cfg.batch_size

\* One training record reaches the batcher.
Deliver(rec) ==
  LET key == BatcherKey(rec)
      recs == Collected(windows, key, rec)
  IN /\ arrived' = Append(arrived, rec.pos)
     /\ IF WindowFull(recs)
        THEN /\ emitted' = Append(emitted, batching_func(key, recs))
             /\ windows' = Without(windows, key)
        ELSE /\ emitted' = emitted
             /\ windows' = With(windows, key, recs)

(***************************************************************************)
(* One element is drawn from the shuffle and passes the map and filter     *)
(* stages on its way to the batcher.                                       *)
(***************************************************************************)
\* The shuffle reads upstream until its buffer holds buffer_size elements.
ShuffleRoom ==
  OutputBufferSize(cfg.output_buffer_size, cfg.batch_size) - Cardinality(buffer)

ShuffleFilled == buffer \cup Range(Take(upstream, ShuffleRoom))

Pull ==
  /\ status = "running"
  /\ cfg.mode = "train"
  /\ \E p \in ShuffleFilled :
       LET pair == corpus[p + 1]
       IN /\ buffer' = ShuffleFilled \ {p}
          /\ upstream' = Drop(upstream, Max(ShuffleRoom, 0))
          /\ IF ~KeepPair(Tokenize(pair[1]), Tokenize(pair[2]))
             THEN /\ filtered' = filtered \cup {p}
                  /\ UNCHANGED <<status, arrived, windows, emitted, failed>>
             ELSE IF TrainLookupFails(pair, cfg.src_max_len, cfg.tgt_max_len)
             THEN /\ status' = "failed"
                  /\ failed' = p
                  /\ UNCHANGED <<filtered, arrived, windows, emitted>>
             ELSE /\ Deliver(TrainRecord(p, pair, cfg.src_max_len, cfg.tgt_max_len))
                  /\ UNCHANGED <<status, filtered, failed>>
  /\ UNCHANGED <<cfg, corpus, reinit, skipped, shards>>

(***************************************************************************)
(* get_infer_iterator: the source lines in order, no filter.               *)
(***************************************************************************)
InferPull ==
  /\ status = "running"
  /\ cfg.mode = "infer"
  /\ upstream # <<>>
  /\ LET p == Head(upstream)
         line == corpus[p + 1][1]
     IN /\ upstream' = Tail(upstream)
        /\ IF InferLookupFails(line, cfg.src_max_len)
           THEN /\ status' = "failed"
                /\ failed' = p
                /\ UNCHANGED <<arrived, windows, emitted>>
           ELSE LET recs == Collected(windows, None,
                                      InferRecord(p, line, cfg.src_max_len))
                IN /\ arrived' = Append(arrived, p)
                   /\ IF WindowFull(recs)
                      THEN /\ emitted' = Append(emitted, infer_batching_func(recs))
                           /\ windows' = Without(windows, None)
                      ELSE /\ emitted' = emitted
                           /\ windows' = With(windows, None, recs)
                   /\ UNCHANGED <<status, failed>>
  /\ UNCHANGED <<cfg, corpus, reinit, skipped, buffer, filtered, shards>>

(***************************************************************************)
(* End of input: the windows that still hold records are reduced, lowest   *)
(* key first, and then the iterator signals the end (OutOfRangeError).     *)
(***************************************************************************)
InputExhausted == upstream = <<>> /\ buffer = {}

\* Variant: the windows left at the end of the input are not reduced.
FlushNever(w) == FALSE

\* Whether a batch is still to come once the input is exhausted.
FlushPending(w) == DOMAIN w # {}

Flush ==
  /\ status = "running"
  /\ InputExhausted
  /\ FlushPending(windows)
  /\ LET key == MinOf(DOMAIN windows)
     IN /\ emitted' = Append(emitted,
                        IF cfg.mode = "train"
                        THEN batching_func(key, windows[key])
                        ELSE infer_batching_func(windows[key]))
        /\ windows' = Without(windows, key)
  /\ UNCHANGED <<cfg, corpus, status, reinit, skipped, upstream, buffer,
                 filtered, arrived, failed, shards>>

EndOfData ==
  /\ status = "running"
  /\ InputExhausted
  /\ ~FlushPending(windows)
  /\ status' = "end"
  /\ UNCHANGED <<cfg, corpus, reinit, skipped, upstream, buffer, filtered,
                 arrived, windows, emitted, failed, shards>>

Next == Initialize \/ Pull \/ InferPull \/ Flush \/ EndOfData

Spec == Init /\ [][Next]_vars

(***************************************************************************)
(* Several workers, one get_iterator call each: worker i builds            *)
(* src_tgt_dataset.shard(num_shards, i) over the same zipped input.        *)
(***************************************************************************)
ShardCounts == 1..(MaxShards + 2)

ShardCorpora == {Take(SamplePairs, n) : n \in 0..Min(MaxPairs, Len(SamplePairs))}

InitShards ==
  /\ cfg \in {c \in TrainConfigs : c.shard_index = 0 /\ c.batch_size = 1
                /\ c.num_buckets = 1 /\ c.src_max_len = None
                /\ c.tgt_max_len = None /\ c.output_buffer_size = None
                /\ c.skip_count = None /\ c.num_shards = 1}
  /\ corpus \in ShardCorpora
  /\ status = "created"
  /\ reinit = FALSE
  /\ skipped = <<>>
  /\ upstream = <<>>
  /\ buffer = {}
  /\ filtered = {}
  /\ arrived = <<>>
  /\ windows = NoWindows
  /\ emitted = <<>>
  /\ failed = None
  /\ shards \in {[num_shards |-> ns, built |-> NoWindows] : ns \in ShardCounts}

BuildShard ==
  /\ \E i \in 0..(shards.num_shards - 1) :
       /\ i \notin DOMAIN shards.built
       /\ shards' = [shards EXCEPT
                       !.built = With(shards.built, i,
                                      Shard(Len(corpus), shards.num_shards, i))]
  /\ UNCHANGED <<cfg, corpus, status, reinit, skipped, upstream, buffer,
                 filtered, arrived, windows, emitted, failed>>

SpecShards == InitShards /\ [][BuildShard]_vars

(***************************************************************************)
(* Vocabulary of the properties.                                           *)
(***************************************************************************)
IsTrain == cfg.mode = "train"

Bucketed == IsTrain /\ cfg.num_buckets > 1

\* The records held in the windows, and those of the emitted batches.
InWindows == UNION {Range(windows[k]) : k \in DOMAIN windows}

InBatches == UNION {Range(emitted[k].members) : k \in 1..Len(emitted)}

Delivered == InWindows \cup InBatches

\* A line without any token: nothing but whitespace.
ZeroTokens(line) == \A i \in 1..Len(line) : line[i] = " "

EmptyPair(p) == ZeroTokens(corpus[p + 1][1]) \/ ZeroTokens(corpus[p + 1][2])

\* Positions owned by the pipeline's shard, and those left after the skip.
LocalPositions ==
  {p \in 0..(Len(corpus) - 1) : p % cfg.num_shards = cfg.shard_index}

RankInShard(p) == Cardinality({q \in LocalPositions : q < p})

SkipCount == IF cfg.skip_count = None THEN 0 ELSE cfg.skip_count

SkippedPositions == {p \in LocalPositions : RankInShard(p) < SkipCount}

\* Positions that are no longer upstream of the filter.
Pulled == filtered \cup Range(arrived) \cup (IF failed = None THEN {} ELSE {failed})

\* Number of (batch, slot) places that hold position p.
Occurrences(p) ==
  Cardinality({kj \in UNION {{<<k, j>> : j \in 1..Len(emitted[k].members)} :
                               k \in 1..Len(emitted)} :
                 emitted[kj[1]].members[kj[2]].pos = p})

\* Index of position p in the arrival stream.
ArrivalIndex(p) == CHOOSE i \in 1..Len(arrived) : arrived[i] = p

\* The target of position p, encoded, before framing.
EncodedTarget(p) ==
  lookup_sep_vocabs(tgt_vocab_tables,
                    TruncateTgt(Tokenize(corpus[p + 1][2]), cfg.tgt_max_len))

\* Number of target tokens of position p that survive tgt_max_len.
TruncatedTokenCount(p) ==
  LET ntok == Len(Tokens(corpus[p + 1][2]))
  IN IF cfg.tgt_max_len # None /\ cfg.tgt_max_len # 0
     THEN Min(ntok, cfg.tgt_max_len) ELSE ntok

SosRow == [i \in 1..Len(tgt_vocab_tables) |-> VocabLookup(tgt_vocab_tables[i], sos)]

EosRow == [i \in 1..Len(tgt_vocab_tables) |-> VocabLookup(tgt_vocab_tables[i], eos)]

\* grid is `body` followed by rows that hold pad in each of `width` columns.
PaddedFrom(grid, body, width, pad) ==
  /\ Len(grid) >= Len(body)
  /\ \A t \in 1..Len(grid) :
       grid[t] = IF t <= Len(body) THEN body[t] ELSE [i \in 1..width |-> pad]

FramedAs(tgt_in, tgt_out, tgt_len, T) ==
  /\ Len(tgt_in) = Len(T) + 1
  /\ Len(tgt_out) = Len(T) + 1
  /\ tgt_len = Len(T) + 1
  /\ tgt_in[1] = SosRow
  /\ tgt_out[Len(T) + 1] = EosRow
  /\ \A t \in 1..Len(T) : tgt_in[t + 1] = T[t] /\ tgt_out[t] = T[t]

(***************************************************************************)
(* C1: in every training record, target_input is the encoded target with   *)
(* one row of start-of-sequence ids in front and target_output the encoded *)
(* target with one row of end-of-sequence ids behind, both one row longer  *)
(* than the (possibly truncated) target, and target_sequence_length is     *)
(* that length.                                                            *)
(***************************************************************************)
C1_Framing ==
  IsTrain =>
    /\ \A r \in InWindows :
         FramedAs(r.tgt_in, r.tgt_out, r.tgt_len, EncodedTarget(r.pos))
    /\ \A k \in 1..Len(emitted) : \A j \in 1..Len(emitted[k].members) :
         LET r == emitted[k].members[j]
             T == EncodedTarget(r.pos)
             n == emitted[k].target_sequence_length[j]
         IN /\ FramedAs(r.tgt_in, r.tgt_out, r.tgt_len, T)
            /\ n = TruncatedTokenCount(r.pos) + 1
            /\ FramedAs(Take(emitted[k].target_input[j], n),
                        Take(emitted[k].target_output[j], n), n, T)

\* A batch holds a record whose target was truncated.
C1_Witness ==
  /\ IsTrain
  /\ Truthy(cfg.tgt_max_len)
  /\ \E k \in 1..Len(emitted) : \E j \in 1..Len(emitted[k].members) :
       /\ Len(Tokens(corpus[emitted[k].members[j].pos + 1][2])) > cfg.tgt_max_len
       /\ emitted[k].target_sequence_length[j] = cfg.tgt_max_len + 1

GridPadded(padded, plain, width, pad) ==
  \A j \in 1..Len(plain) :
    /\ Len(padded[j]) = MaxOf({Len(plain[m]) : m \in 1..Len(plain)})
    /\ PaddedFrom(padded[j], plain[j], width, pad)

(***************************************************************************)
(* C2: in every emitted batch, training or inference, each grid has one    *)
(* timestep dimension for all records, the largest unpadded length among   *)
(* the batch's records, and each record's block is its unpadded grid       *)
(* followed only by rows of the side's field-0 end-of-sequence id.         *)
(***************************************************************************)
C2_Padding ==
  \A k \in 1..Len(emitted) :
    LET b == emitted[k]
        m == b.members
    IN /\ Len(b.source) = Len(m)
       /\ GridPadded(b.source, [j \in 1..Len(m) |-> m[j].src],
                     Len(src_vocab_tables), VocabLookup(src_vocab_tables[1], eos))
       /\ IsTrain =>
            /\ Len(b.target_input) = Len(m)
            /\ Len(b.target_output) = Len(m)
            /\ GridPadded(b.target_input, [j \in 1..Len(m) |-> m[j].tgt_in],
                          Len(tgt_vocab_tables),
                          VocabLookup(tgt_vocab_tables[1], eos))
            /\ GridPadded(b.target_output, [j \in 1..Len(m) |-> m[j].tgt_out],
                          Len(tgt_vocab_tables),
                          VocabLookup(tgt_vocab_tables[1], eos))

\* A bucketed training batch in which both sides of a record were padded.
C2_Witness ==
  /\ Bucketed
  /\ \E k \in 1..Len(emitted) : \E j \in 1..Len(emitted[k].members) :
       /\ Len(emitted[k].source[j]) > emitted[k].members[j].src_len
       /\ Len(emitted[k].target_input[j]) > emitted[k].members[j].tgt_len

(***************************************************************************)
(* C3: shard i holds exactly the positions p of the zipped input with      *)
(* p mod num_shards = i, in order; the shards of all indices are pairwise  *)
(* disjoint and together hold every position once.                         *)
(***************************************************************************)
C3_Sharding ==
  /\ \A i \in DOMAIN shards.built :
       /\ Range(shards.built[i]) =
            {p \in 0..(Len(corpus) - 1) : p % shards.num_shards = i}
       /\ \A a, b \in 1..Len(shards.built[i]) :
            a < b => shards.built[i][a] < shards.built[i][b]
  /\ DOMAIN shards.built = 0..(shards.num_shards - 1) =>
       /\ \A i, j \in DOMAIN shards.built :
            i # j => Range(shards.built[i]) \cap Range(shards.built[j]) = {}
       /\ UNION {Range(shards.built[i]) : i \in DOMAIN shards.built} =
            0..(Len(corpus) - 1)

\* Every shard of a split in at least two is built, over three or more pairs.
C3_Witness ==
  /\ shards.num_shards >= 2
  /\ DOMAIN shards.built = 0..(shards.num_shards - 1)
  /\ Len(corpus) >= 3

C5_Skip ==
  (IsTrain /\ status # "created") =>
    /\ Range(skipped) = SkippedPositions
    /\ Len(skipped) = Cardinality(SkippedPositions)
    /\ \A a, b \in 1..Len(skipped) : a < b => skipped[a] < skipped[b]
    /\ SkippedPositions \cap (Pulled \cup buffer \cup Range(upstream)) = {}
    /\ \A r \in Delivered : r.pos \notin SkippedPositions
    /\ Pulled \cup buffer \cup Range(upstream) = LocalPositions \ SkippedPositions

\* The initializer ran again; a record was skipped and a batch emitted.
C5_Witness ==
  /\ IsTrain
  /\ reinit
  /\ cfg.num_shards > 1
  /\ skipped # <<>>
  /\ emitted # <<>>

DelimCount(tok) == Cardinality({i \in 1..Len(tok) : tok[i] = INPUT_DELIM})

LacksDelims(line, ntables) ==
  \E t \in 1..Len(Tokens(line)) : DelimCount(Tokens(line)[t]) < ntables - 1

Malformed(p) ==
  \/ LacksDelims(corpus[p + 1][1], Len(src_vocab_tables))
  \/ LacksDelims(corpus[p + 1][2], Len(tgt_vocab_tables))

(***************************************************************************)
(* C6 as claimed: a record with a token that lacks sub-field delimiters    *)
(* fails and is never collected or batched like a well-formed record.      *)
(***************************************************************************)
C6_Original == IsTrain => \A r \in Delivered : ~Malformed(r.pos)

\* The sub-fields of each token of a line, as many as the token has.
RaggedRows(line) ==
  LET toks == Tokens(line)
  IN [t \in 1..Len(toks) |-> string_split(toks[t], {INPUT_DELIM})]

\* The largest number of sub-fields among the tokens of a line.
LineWidth(line) ==
  LET rows == RaggedRows(line)
  IN MaxOf({Len(rows[t]) : t \in 1..Len(rows)})

\* The ids of the first n tokens, a missing sub-field read as "".
FilledRows(rows, n, tables) ==
  [t \in 1..Min(n, Len(rows)) |->
     [i \in 1..Len(tables) |->
        VocabLookup(tables[i], IF i <= Len(rows[t]) THEN rows[t][i] ELSE <<>>)]]

TooNarrow(p) ==
  \/ LineWidth(corpus[p + 1][1]) < Len(src_vocab_tables)
  \/ LineWidth(corpus[p + 1][2]) < Len(tgt_vocab_tables)

(***************************************************************************)
(* C6 as amended: nothing validates the sub-field count.  When some token  *)
(* of the line has as many sub-fields as the side has tables, the missing  *)
(* sub-fields of the other tokens are filled with the empty string, looked *)
(* up like any word (the default id, the empty string being in no table)   *)
(* and the record is collected and batched; when no token of the line has  *)
(* that many, the column slice of the lookup raises and the iterator       *)
(* fails.                                                                  *)
(***************************************************************************)
C6_Amended ==
  IsTrain =>
    /\ \A p \in Pulled \ filtered : (p = failed) <=> TooNarrow(p)
    /\ (status = "failed") <=> (failed # None)
    /\ \A r \in Delivered :
         LET srows == RaggedRows(corpus[r.pos + 1][1])
             trows == RaggedRows(corpus[r.pos + 1][2])
         IN /\ r.src = FilledRows(srows, r.src_len, src_vocab_tables)
            /\ r.tgt = FilledRows(trows, Len(r.tgt), tgt_vocab_tables)
            /\ \A t \in 1..r.src_len : \A i \in 1..Len(src_vocab_tables) :
                 i > Len(srows[t]) => r.src[t][i] = UNK_ID

\* A batch holds a source row whose second field was never in the line.
C6_Witness ==
  /\ IsTrain
  /\ \E k \in 1..Len(emitted) : \E j \in 1..Len(emitted[k].members) :
       LET r == emitted[k].members[j]
       IN /\ Malformed(r.pos)
          /\ \E t \in 1..r.src_len :
               /\ DelimCount(Tokens(corpus[r.pos + 1][1])[t]) = 0
               /\ emitted[k].source[j][t][2] = UNK_ID

(***************************************************************************)
(* C7: with num_buckets = 1 the k-th batch holds the records at places     *)
(* (k-1)*batch_size+1 .. k*batch_size of the arrival stream, in arrival    *)
(* order, and only the last batch, at the end of the input, may hold fewer *)
(* than batch_size records.                                                *)
(***************************************************************************)
C7_Sequential ==
  (IsTrain /\ cfg.num_buckets = 1) =>
    \A k \in 1..Len(emitted) :
      LET m == emitted[k].members
          bs == cfg.batch_size
      IN /\ [j \in 1..Len(m) |-> m[j].pos] =
              SubSeq(arrived, (k - 1) * bs + 1, Min(k * bs, Len(arrived)))
         /\ Len(m) >= 1
         /\ \/ Len(m) = bs
            \/ k = Len(emitted) /\ upstream = <<>> /\ buffer = {}

\* The epoch ended with a full batch and then a partial one.
C7_Witness ==
  /\ IsTrain
  /\ cfg.num_buckets = 1
  /\ cfg.batch_size = 2
  /\ status = "end"
  /\ Len(emitted) >= 2
  /\ Len(emitted[Len(emitted)].members) = 1

(***************************************************************************)
(* C8: with num_buckets > 1, when the iterator signals the end of the data *)
(* no window holds a record any more, and every position that passed the   *)
(* shard, the skip and the filter is in exactly one place of one batch.    *)
(***************************************************************************)
C8_Flush ==
  (Bucketed /\ status = "end") =>
    /\ InWindows = {}
    /\ \A p \in LocalPositions \ SkippedPositions :
         Occurrences(p) = IF EmptyPair(p) THEN 0 ELSE 1
    /\ \A r \in InBatches : r.pos \in LocalPositions \ SkippedPositions

\* The end was signalled after two windows were flushed short of batch_size.
C8_Witness ==
  /\ Bucketed
  /\ status = "end"
  /\ \E k1, k2 \in 1..Len(emitted) :
       /\ k1 # k2
       /\ Len(emitted[k1].members) < cfg.batch_size
       /\ Len(emitted[k2].members) < cfg.batch_size

ClaimedWidth ==
  IF cfg.src_max_len # None /\ cfg.src_max_len # 0
  THEN CHOOSE w \in 1..cfg.src_max_len :
         w * cfg.num_buckets >= cfg.src_max_len
         /\ (w - 1) * cfg.num_buckets < cfg.src_max_len
  ELSE 10

ClaimedBucket(src_len, tgt_len) ==
  Min(cfg.num_buckets, Max(src_len, tgt_len) \div ClaimedWidth)

(***************************************************************************)
(* C9: with num_buckets > 1 a batch holds at most batch_size records, all  *)
(* of bucket id min(num_buckets, max(source_length, target_length) div     *)
(* bucket_width), bucket_width being ceil(src_max_len / num_buckets) when  *)
(* src_max_len is set and 10 otherwise, in their arrival order.            *)
(***************************************************************************)
C9_Bucketing ==
  Bucketed =>
    \A k \in 1..Len(emitted) :
      LET b == emitted[k]
          m == b.members
      IN /\ Len(m) <= cfg.batch_size
         /\ \A j \in 1..Len(m) :
              /\ ClaimedBucket(b.source_sequence_length[j],
                               b.target_sequence_length[j]) = b.key
              /\ ClaimedBucket(b.source_sequence_length[j],
                               b.target_sequence_length[j]) =
                 ClaimedBucket(b.source_sequence_length[1],
                               b.target_sequence_length[1])
         /\ \A i, j \in 1..Len(m) :
              i < j => ArrivalIndex(m[i].pos) < ArrivalIndex(m[j].pos)

\* A batch of two records between which a record of another bucket arrived.
C9_Witness ==
  /\ Bucketed
  /\ \E k \in 1..Len(emitted) :
       LET m == emitted[k].members
       IN /\ Len(m) = 2
          /\ ArrivalIndex(m[2].pos) > ArrivalIndex(m[1].pos) + 1
          /\ \E r \in Delivered :
               /\ ArrivalIndex(r.pos) > ArrivalIndex(m[1].pos)
               /\ ArrivalIndex(r.pos) < ArrivalIndex(m[2].pos)
               /\ ClaimedBucket(r.src_len, r.tgt_len) # emitted[k].key

BucketIdsInUse == {emitted[k].key : k \in 1..Len(emitted)} \cup DOMAIN windows

(***************************************************************************)
(* C10 as claimed: key_func sorts the records into num_buckets buckets,    *)
(* so the bucket ids in use take at most num_buckets distinct values.      *)
(***************************************************************************)
C10_AtMostNumBuckets == Bucketed => Cardinality(BucketIdsInUse) <= cfg.num_buckets

====
